---------------------------- MODULE Spec2Model ----------------------------
(* ChronosForecaster (sktime/forecasting/chronos.py): the adapter between   *)
(* the forecasting framework and a pretrained sampling pipeline.            *)
(*                                                                          *)
(* Conventions of the model                                                 *)
(*   - Python's None is the empty tuple, a present value v is <<v>>.         *)
(*   - A dict is a function from its keys (strings) to its values.          *)
(*   - A series table y is [multi, rows]: multi says whether the index is a *)
(*     pd.MultiIndex (key, time); rows are the table's rows in row order,   *)
(*     each [key, time, val]. A flat series carries key 0 on every row.     *)
(*   - Time points are integers; step offset j after cutoff c is c + j.     *)
(*   - The pipeline is opaque: its samples are a deterministic function of  *)
(*     the global random state, the context, the step and the sampling      *)
(*     parameters. Sample values are even integers, so the mean np.median   *)
(*     takes of the two middle values of an even sample count is exact.     *)
(*   - The external collaborators (from_pretrained, pipeline.predict) are   *)
(*     modelled on their returning paths; an exception they raise leaves    *)
(*     the adapter as it was before the call and is not an adapter step.    *)
EXTENDS Integers, Sequences, FiniteSets, TLC

\* ------------------------------------------------------------------ bounds
\* longest shared time index of an input series
MaxLen == 3
\* most groups (distinct keys) of an input panel
MaxGroups == 2
\* largest relative step offset of a forecasting horizon
MaxStep == 3
\* largest context length of a pretrained model
MaxCtx == 2

VARIABLES
    heap,            \* the dict objects: "default" (ChronosForecaster._default_config,
                     \* shared by every instance), "caller" (the mapping the caller
                     \* passed as config), "own" (the dict __init__ creates)
    config,          \* self.config: None, or the reference <<"caller">>
    config_passed,   \* ghost: the content of the caller's mapping when it was passed
    _config,         \* self._config: the name of the dict object it refers to
    seed,            \* self.seed
    _seed,           \* self._seed
    model_pipeline,  \* self.model_pipeline: None or <<handle>>
    load_calls,      \* ghost: calls of ChronosPipeline.from_pretrained by this instance
    fit_calls,       \* ghost: _fit calls on this instance, saturating at 2
    _y,              \* self._y: None or <<table>>
    cutoff,          \* self.cutoff, the last observed time point
    random_state,    \* the process-wide random state transformers.set_seed sets
    calls,           \* ghost: the pipeline invocations of the last _predict call
    out              \* ghost: the last _predict call since the last fit: its
                     \* arguments and how it ended

vars == <<heap, config, config_passed, _config, seed, _seed, model_pipeline,
          load_calls, fit_calls, _y, cutoff, random_state, calls, out>>

\* ----------------------------------------------------------------- values
None == <<>>

Some(v) == <<v>>

\* the value of an optional integer, d when it is None
OrElse(o, d) == IF o = None THEN d ELSE o[1]

SetMax(S) == CHOOSE m \in S : \A x \in S : x <= m

SetMin(S) == CHOOSE m \in S : \A x \in S : m <= x

RECURSIVE SumSeq(_)
SumSeq(s) == IF s = <<>> THEN 0 ELSE Head(s) + SumSeq(Tail(s))

RECURSIVE Concat(_)
Concat(ss) == IF ss = <<>> THEN <<>> ELSE Head(ss) \o Concat(Tail(ss))

\* the elements of a finite set of integers in ascending order (np.unique)
RECURSIVE SortedSeq(_)
SortedSeq(S) ==
    IF S = {} THEN <<>> ELSE <<SetMin(S)>> \o SortedSeq(S \ {SetMin(S)})

\* --------------------------------------------------------- configuration
\* ChronosForecaster._default_config
DefaultConfig ==
    [num_samples |-> None, temperature |-> None, top_k |-> None, top_p |-> None,
     limit_prediction_length |-> FALSE, torch_dtype |-> "bfloat16",
     device_map |-> "cpu"]

EmptyDict == [k \in {} |-> None]

\* the mappings a caller passes as config
CallerDicts ==
    { [num_samples |-> Some(2)],
      [num_samples |-> Some(1), limit_prediction_length |-> TRUE],
      [temperature |-> Some(1), top_k |-> Some(2), top_p |-> Some(1),
       device_map |-> "cuda"] }

ConfigArgs == {None} \cup {Some(d) : d \in CallerDicts}

SeedArgs == {None, Some(42)}

\* the values np.random.randint(0, 2**31) is allowed to draw here
RandomSeeds == {0, 1}

\* the values of the process-wide random state
RandomStates == 0 .. 3

\* a key of u overrides d's, a key u lacks keeps d's value (dict.update)
dict_update_defaults_win(d, u) ==
    [k \in DOMAIN d \cup DOMAIN u |-> IF k \in DOMAIN d THEN d[k] ELSE u[k]]

dict_update(d, u) ==
    [k \in DOMAIN d \cup DOMAIN u |-> IF k \in DOMAIN u THEN u[k] ELSE d[k]]

\* dict.copy() returns a new object, here "own", holding src's content
dict_copy_alias(src) == src

dict_copy(src) == "own"

\* the heap after __init__'s lines 99-102, with the caller's argument cfg
merge_config(h, cfg) ==
    LET h0 == [h EXCEPT !["caller"] = IF cfg = None THEN EmptyDict ELSE cfg[1]]
        ref == dict_copy("default")
        h1 == [h0 EXCEPT ![ref] = h0["default"]]
        upd == IF cfg # None THEN h1["caller"] ELSE EmptyDict
    IN  [h1 EXCEPT ![ref] = dict_update(h1[ref], upd)]

\* self._seed of __init__ with argument sd, rs being np.random.randint's draw
init_seed(sd, rs) == IF sd = None THEN rs ELSE sd[1]


\* ------------------------------------------------------------ input tables
\* the time index start+1 .. start+len
TimeIndex(start, len) == [i \in 1 .. len |-> start + i]

\* the rows of one series: key k observed at the time points of idx
Block(k, idx) ==
    [i \in 1 .. Len(idx) |-> [key |-> k, time |-> idx[i], val |-> 10 * k + idx[i]]]

\* a flat series of length len (pd.DataFrame with a plain index)
FlatY(len) == [multi |-> FALSE, rows |-> Block(0, TimeIndex(0, len))]

\* a panel (pd-multiindex): one block of rows per key, in the order `order`;
\* every group has the time index 1..len, except group number dev (0: none),
\* which is one step longer ("longer") or starts one step later ("shifted")
PanelY(order, len, dev, kind) ==
    [multi |-> TRUE,
     rows  |-> Concat([g \in 1 .. Len(order) |->
                 Block(order[g],
                       IF g # dev THEN TimeIndex(0, len)
                       ELSE IF kind = "longer" THEN TimeIndex(0, len + 1)
                       ELSE TimeIndex(1, len))])]

\* the orders in which the keys of a panel can appear in its rows
KeyOrders ==
    UNION { { o \in [1 .. k -> 1 .. MaxGroups] :
                \A a, b \in 1 .. k : a # b => o[a] # o[b] } : k \in 1 .. MaxGroups }

WellFormedPanels == { PanelY(o, n, 0, "none") : o \in KeyOrders, n \in 1 .. MaxLen }

MalformedPanels ==
    UNION { { PanelY(o, n, d, kind) : d \in 1 .. Len(o), kind \in {"longer", "shifted"} } :
            o \in { q \in KeyOrders : Len(q) >= 2 }, n \in 1 .. MaxLen }

FlatSeries == { FlatY(n) : n \in 1 .. MaxLen }

\* the tables fit and predict are given
Ys == FlatSeries \cup WellFormedPanels \cup MalformedPanels

\* a flat series and a two-group panel, for the runs that vary the adapter
SmallYs == { FlatY(2), PanelY(<<1, 2>>, 2, 0, "none") }

\* the horizons predict is asked for: None, or relative step offsets that the
\* caller gives as such or as absolute time points
HorizonArgs ==
    {None} \cup { Some([is_relative |-> b, steps |-> S]) :
                    b \in BOOLEAN, S \in (SUBSET (1 .. MaxStep)) \ {{}} }

\* the context lengths a pretrained model's configuration may state
ContextLengths == 1 .. MaxCtx

\* ------------------------------------------------------ framework helpers
\* ForecastingHorizon.to_relative(cutoff)
to_relative(fh, c) == IF fh.is_relative THEN fh.values ELSE { v - c : v \in fh.values }

\* ForecastingHorizon.to_absolute(cutoff)
to_absolute(fh, c) == IF fh.is_relative THEN { v + c : v \in fh.values } ELSE fh.values

\* fh.get_expected_pred_idx(_y, cutoff) for the array _y: the absolute time
\* points of the horizon
get_expected_pred_idx(fh, c) == to_absolute(fh, c)

\* the cutoff the framework's fit keeps: the last observed time point
cutoff_of(y) == SetMax({ y.rows[i].time : i \in DOMAIN y.rows })

\* ----------------------------------------------------------- the pipeline
\* ChronosPipeline.from_pretrained: the handle of the model at path, whose
\* configuration states context length c
from_pretrained(path, dtype, device, c) ==
    [model_path |-> path, torch_dtype |-> dtype, device_map |-> device,
     context_length |-> c, num_samples |-> 3]

\* one sampled value: step j of sample s, drawn in random state r
sample_value(r, context, j, s, temperature, top_k, top_p) ==
    2 * ( 1000000 * (OrElse(temperature, 0) + OrElse(top_k, 0) + OrElse(top_p, 0))
        + 100000 * ((r + s) % 4) + 1000 * j + SumSeq(context) )

\* pipeline.predict(context, P, ...): a batch of one, ns samples of length P,
\* and the random state it leaves behind
pipeline_predict(handle, r, context, P, num_samples, temperature, top_k, top_p, limit) ==
    LET ns == OrElse(num_samples, handle.num_samples)
    IN  [samples |-> << [s \in 1 .. ns |-> [j \in 1 .. P |->
                           sample_value(r, context, j, s, temperature, top_k, top_p)]] >>,
         rng |-> (r + ns) % 4]

\* transformers.set_seed(s): the random state is a function of s alone
set_seed_keeps_state(s, r) == r

set_seed(s, r) == s % 4

\* ------------------------------------------------------------ array helpers
\* the number of entries of seq that satisfy Test
CountIn(seq, Test(_)) == Cardinality({ i \in DOMAIN seq : Test(seq[i]) })

\* the k-th smallest entry of seq
kth_smallest(seq, k) ==
    CHOOSE v \in { seq[i] : i \in DOMAIN seq } :
        /\ CountIn(seq, LAMBDA x : x < v) < k
        /\ k <= CountIn(seq, LAMBDA x : x <= v)

\* np.median of a 1-D array: the middle value, or the mean of the two middle ones
median(seq) ==
    LET n == Len(seq)
    IN  IF n % 2 = 1 THEN kth_smallest(seq, (n + 1) \div 2)
        ELSE (kth_smallest(seq, n \div 2) + kth_smallest(seq, (n \div 2) + 1)) \div 2

\* np.median(samples, axis=0): per step, the median across the samples
np_median_axis0(samples) ==
    [j \in 1 .. Len(samples[1]) |-> median([s \in 1 .. Len(samples) |-> samples[s][j]])]

\* _y_i[-c:]: the last c entries, all of them when there are no more than c
tail_slice_keeps_oldest(seq, c) ==
    SubSeq(seq, 1, IF c >= Len(seq) THEN Len(seq) ELSE c)

tail_slice(seq, c) ==
    LET start == IF c >= Len(seq) \/ c = 0 THEN 0 ELSE Len(seq) - c
    IN  SubSeq(seq, start + 1, Len(seq))

\* x.equals(data.iloc[0]) of two time indexes
index_equals_by_length(a, b) == Len(a) = Len(b)

index_equals(a, b) == a = b

\* the time index of key k: the last index level of k's rows, in row order
group_index(rows, k) ==
    LET sel == SelectSeq(rows, LAMBDA r : r.key = k)
    IN  [i \in 1 .. Len(sel) |-> sel[i].time]

\* _same_index(data): groupby sorts the keys, iloc[0] is the smallest one's index
_same_index(data) ==
    LET keys  == { data.rows[i].key : i \in DOMAIN data.rows }
        first == group_index(data.rows, SetMin(keys))
    IN  [ok     |-> \A k \in keys : index_equals(group_index(data.rows, k), first),
         idx    |-> first,
         length |-> Len(first)]

\* _frame2numpy(data): the values in row order, cut into chunks of `length`
_frame2numpy(data) ==
    LET length == _same_index(data).length
    IN  [i \in 1 .. (Len(data.rows) \div length) |->
            [t \in 1 .. length |-> data.rows[((i - 1) * length) + t].val]]

\* _y.values.reshape(1, -1, 1): one group holding every value
reshape_flat(data) == << [t \in 1 .. Len(data.rows) |-> data.rows[t].val] >>

\* ---------------------------------------------------------------- _predict
\* lines 151-155
prediction_length_counts_points(fh, c) ==
    IF fh # None THEN Cardinality(to_relative(fh[1], c)) ELSE 1

prediction_length(fh, c) ==
    IF fh # None THEN SetMax(to_relative(fh[1], c)) ELSE 1

\* lines 168-183: one pipeline invocation per group, in the order of the
\* groups of arr, the random state threading through them
run_groups(arr, handle, cfg, P, r0) ==
    LET st[i \in 0 .. Len(arr)] ==
            IF i = 0 THEN [rng |-> r0, calls |-> <<>>, results |-> <<>>]
            ELSE LET prev == st[i - 1]
                     y_i  == tail_slice(arr[i], handle.context_length)
                     res  == pipeline_predict(handle, prev.rng, y_i, P,
                                 cfg["num_samples"], cfg["temperature"],
                                 cfg["top_k"], cfg["top_p"], FALSE)
                 IN  [rng     |-> res.rng,
                      calls   |-> Append(prev.calls,
                                    [context |-> y_i, prediction_length |-> P,
                                     num_samples |-> cfg["num_samples"],
                                     temperature |-> cfg["temperature"],
                                     top_k |-> cfg["top_k"], top_p |-> cfg["top_p"],
                                     limit_prediction_length |-> FALSE,
                                     samples |-> res.samples[1]]),
                      results |-> Append(prev.results, np_median_axis0(res.samples[1]))]
    IN  st[Len(arr)]

\* np.stack(results, axis=1): pred[j][i] is step j of group i
np_stack_axis1(results) ==
    [j \in 1 .. Len(results[1]) |-> [i \in 1 .. Len(results) |-> results[i][j]]]

\* pred.reshape(-1, 1): the entries of pred in row-major order
reshape_column(pred) ==
    LET K == Len(pred[1])
    IN  [n \in 1 .. Len(pred) * K |-> pred[((n - 1) \div K) + 1][((n - 1) % K) + 1]]

\* np.unique(keys).repeat(P): every key P times, key after key
repeat_keys_tiled(uniq, P) ==
    [n \in 1 .. Len(uniq) * P |-> uniq[((n - 1) % Len(uniq)) + 1]]

repeat_keys(uniq, P) ==
    [n \in 1 .. Len(uniq) * P |-> uniq[((n - 1) \div P) + 1]]

\* the absolute time points of steps 1..P, the whole list K times over
tile_steps(P, K, c) == [n \in 1 .. P * K |-> c + ((n - 1) % P) + 1]

\* lines 203-207: the absolute time points of steps 1..P
flat_index_from_zero(P, c) == [n \in 1 .. P |-> (c + n) - 1]

flat_index(P, c) == [n \in 1 .. P |-> c + n]

\* lines 185-218: the table of the point forecasts, restricted to the horizon.
\* pd.MultiIndex.from_arrays (line 198) and pd.DataFrame (line 210) raise
\* ValueError on arrays of different lengths; fh.get_expected_pred_idx (line
\* 208) raises AttributeError when fh is None.
assemble(results, y_df, fh, c) ==
    LET pred == np_stack_axis1(results)
        P    == Len(pred)
        K    == Len(pred[1])
        col  == reshape_column(pred)
        uniq == SortedSeq({ y_df.rows[i].key : i \in DOMAIN y_df.rows })
        ins  == IF y_df.multi THEN repeat_keys(uniq, P) ELSE [n \in 1 .. P |-> 0]
        idx  == IF y_df.multi THEN tile_steps(P, K, c) ELSE flat_index(P, c)
    IN  IF Len(ins) # Len(idx)
        THEN [status |-> "ValueError", table |-> <<>>]
        ELSE IF fh = None
        THEN [status |-> "AttributeError", table |-> <<>>]
        ELSE IF Len(idx) # Len(col)
        THEN [status |-> "ValueError", table |-> <<>>]
        ELSE LET pred_out == get_expected_pred_idx(fh[1], c)
                 frame    == [n \in 1 .. Len(col) |->
                                [key |-> ins[n], time |-> idx[n], value |-> col[n]]]
             IN  [status |-> "ok",
                  table  |-> SelectSeq(frame, LAMBDA r : r.time \in pred_out)]

\* _predict(fh, y) on the adapter with seed sd, merged configuration cfg,
\* pipeline handle, retained series retained, cutoff c, in random state r
_predict(fh, y, sd, cfg, handle, retained, c, r) ==
    LET r0   == set_seed(sd, r)
        P    == prediction_length(fh, c)
        y_df == IF y # None THEN y[1] ELSE retained
    IN  IF y_df.multi /\ ~_same_index(y_df).ok
        THEN [status |-> "AssertionError", table |-> <<>>, calls |-> <<>>, rng |-> r0]
        ELSE LET arr == IF y_df.multi THEN _frame2numpy(y_df) ELSE reshape_flat(y_df)
                 run == run_groups(arr, handle, cfg, P, r0)
                 res == assemble(run.results, y_df, fh, c)
             IN  [status |-> res.status, table |-> res.table,
                  calls |-> run.calls, rng |-> run.rng]

\* ------------------------------------------------------------------ actions
ModelPath == "amazon/chronos-t5-tiny"

\* the dict objects before any adapter is constructed
PristineHeap == [default |-> DefaultConfig, caller |-> EmptyDict, own |-> EmptyDict]

\* no _predict call has been made since the last fit
NoOut == [status |-> "none", table |-> <<>>, fh |-> None, y |-> None, repeat |-> FALSE]

\* the state __init__(model_path, cfg, sd) leaves, rs being the drawn seed
Constructed(h, cfg, sd, rs) ==
    /\ heap = merge_config(h, cfg)
    /\ config = IF cfg = None THEN None ELSE Some("caller")
    /\ config_passed = cfg
    /\ _config = dict_copy("default")
    /\ seed = sd
    /\ _seed = init_seed(sd, rs)
    /\ model_pipeline = None
    /\ load_calls = 0
    /\ fit_calls = 0
    /\ _y = None
    /\ cutoff = 0
    /\ calls = <<>>
    /\ out = NoOut

\* ChronosForecaster(model_path, cfg, sd): a new adapter replaces the observed
\* one; the class's defaults and the random state are shared with it
Construct(cfg, sd, rs) ==
    /\ heap' = merge_config(heap, cfg)
    /\ config' = IF cfg = None THEN None ELSE Some("caller")
    /\ config_passed' = cfg
    /\ _config' = dict_copy("default")
    /\ seed' = sd
    /\ _seed' = init_seed(sd, rs)
    /\ model_pipeline' = None
    /\ load_calls' = 0
    /\ fit_calls' = 0
    /\ _y' = None
    /\ cutoff' = 0
    /\ calls' = <<>>
    /\ out' = NoOut
    /\ UNCHANGED random_state

\* line 126
needs_load_always(mp) == TRUE

needs_load(mp) == mp = None

\* fit(y): _fit loads the pipeline if none is loaded; the framework keeps y
\* and its cutoff. c is the context length of the model found at model_path.
Fit(y, c) ==
    /\ load_calls < 3
    /\ IF needs_load(model_pipeline)
       THEN /\ model_pipeline' = Some(from_pretrained(ModelPath,
                                    heap[_config]["torch_dtype"],
                                    heap[_config]["device_map"], c))
            /\ load_calls' = load_calls + 1
       ELSE UNCHANGED <<model_pipeline, load_calls>>
    /\ fit_calls' = IF fit_calls < 2 THEN fit_calls + 1 ELSE 2
    /\ _y' = Some(y)
    /\ cutoff' = cutoff_of(y)
    /\ calls' = <<>>
    /\ out' = NoOut
    /\ UNCHANGED <<heap, config, config_passed, _config, seed, _seed, random_state>>

\* the ForecastingHorizon the framework hands to _predict for the argument h
horizon_of(h, c) ==
    IF h = None THEN None
    ELSE Some([is_relative |-> h[1].is_relative,
               values |-> IF h[1].is_relative THEN h[1].steps
                          ELSE { c + j : j \in h[1].steps }])

\* predict(fh, y) on a fitted adapter
Predict(h, y) ==
    /\ model_pipeline # None
    /\ LET fh  == horizon_of(h, cutoff)
           res == _predict(fh, y, _seed, heap[_config], model_pipeline[1],
                           _y[1], cutoff, random_state)
       IN  /\ calls' = res.calls
           /\ random_state' = res.rng
           /\ out' = [status |-> res.status, table |-> res.table, fh |-> fh, y |-> y,
                      repeat |-> out.status # "none" /\ out.fh = fh /\ out.y = y]
    /\ UNCHANGED <<heap, config, config_passed, _config, seed, _seed,
                   model_pipeline, load_calls, fit_calls, _y, cutoff>>

\* another consumer of the process-wide random state draws from it
OtherRandomUse(r) ==
    /\ r # random_state
    /\ random_state' = r
    /\ UNCHANGED <<heap, config, config_passed, _config, seed, _seed, model_pipeline,
                   load_calls, fit_calls, _y, cutoff, calls, out>>

\* ----------------------------------------------------------- specifications
\* the horizons of the runs that vary the adapter
SmallHorizons ==
    { None,
      Some([is_relative |-> TRUE, steps |-> {1, 2}]),
      Some([is_relative |-> FALSE, steps |-> {2}]) }

\* the adapter's life: any construction, then fits and predicts in any order
\* on two tables, other users of the random state in between
Init ==
    /\ random_state = 0
    /\ \E cfg \in ConfigArgs, sd \in SeedArgs, rs \in RandomSeeds :
           Constructed(PristineHeap, cfg, sd, rs)

Next ==
    \/ \E cfg \in ConfigArgs, sd \in SeedArgs, rs \in RandomSeeds : Construct(cfg, sd, rs)
    \/ \E y \in SmallYs, c \in ContextLengths : Fit(y, c)
    \/ \E h \in SmallHorizons, y \in {None} \cup { Some(t) : t \in SmallYs } : Predict(h, y)
    \/ \E r \in RandomStates : OtherRandomUse(r)

Spec == Init /\ [][Next]_vars

\* the data path: one adapter (default configuration or two samples per
\* call, seed 42) is fitted on any table and then asked once for any horizon,
\* on the retained table or on a replacement
InitData ==
    /\ random_state = 0
    /\ \E cfg \in {None, Some([num_samples |-> Some(2)])} :
           Constructed(PristineHeap, cfg, Some(42), 0)

NextData ==
    \/ \E y \in Ys, c \in ContextLengths : fit_calls = 0 /\ Fit(y, c)
    \/ \E h \in HorizonArgs, y \in {None, Some(PanelY(<<2, 1>>, 2, 0, "none"))} :
           out.status = "none" /\ Predict(h, y)

SpecData == InitData /\ [][NextData]_vars

\* the data path on the tables whose keys ascend in row order, each asked for
\* a forecast of the retained table
KeysAscend(y) ==
    \A a, b \in DOMAIN y.rows : a < b => y.rows[a].key <= y.rows[b].key

SortedYs == { y \in Ys : KeysAscend(y) }

NextSorted ==
    \/ \E y \in SortedYs, c \in ContextLengths : fit_calls = 0 /\ Fit(y, c)
    \/ \E h \in HorizonArgs : out.status = "none" /\ Predict(h, None)

SpecSorted == InitData /\ [][NextSorted]_vars

\* ------------------------------------------------- what the claims speak of
\* a _predict call has been made since the last fit
Predicted == out.status # "none"

\* the table the last _predict call worked on
Used == IF out.y # None THEN out.y[1] ELSE _y[1]

UsedKeys == { Used.rows[i].key : i \in DOMAIN Used.rows }

\* the values of the rows of key k, in row order: group k's own history
OwnSeries(k) ==
    LET sel == SelectSeq(Used.rows, LAMBDA r : r.key = k)
    IN  [i \in 1 .. Len(sel) |-> sel[i].val]

\* the time points of the rows of key k, in row order
OwnTimes(k) ==
    LET sel == SelectSeq(Used.rows, LAMBDA r : r.key = k)
    IN  [i \in 1 .. Len(sel) |-> sel[i].time]

\* the place of key k among the groups in row order, which is the number of
\* the pipeline invocation made on k's rows
FirstRow(k) == SetMin({ i \in DOMAIN Used.rows : Used.rows[i].key = k })

GroupNumber(k) == Cardinality({ g \in UsedKeys : FirstRow(g) <= FirstRow(k) })

\* the absolute time points the last call was asked for, and how many
Requested ==
    IF out.fh[1].is_relative THEN { cutoff + j : j \in out.fh[1].values }
    ELSE out.fh[1].values

\* the largest relative step offset the last call was asked for
MaxOffset ==
    IF out.fh[1].is_relative THEN SetMax(out.fh[1].values)
    ELSE SetMax(out.fh[1].values) - cutoff

\* the median, at step j, of the samples pipeline invocation number i returned
MedianOfCall(i, j) ==
    LET smp == calls[i].samples
    IN  median([s \in 1 .. Len(smp) |-> smp[s][j]])

\* the rows of the returned table that carry key k
RowsOfKey(k) == { n \in DOMAIN out.table : out.table[n].key = k }

Smaller(a, b) == IF a <= b THEN a ELSE b

\* the groups of the used table do not all have the same time index
Malformed ==
    Used.multi /\ \E k1, k2 \in UsedKeys : OwnTimes(k1) # OwnTimes(k2)

\* ------------------------------------------------------------------- claims
\* C1: in the table predict returns for a panel, the row indexed (group key g,
\* step j) holds the median at step j of the samples the pipeline returned for
\* the invocation made on g's own history, for every number of groups and
\* steps and every order of the keys.
C1_RowHoldsOwnGroupMedian ==
    (out.status = "ok" /\ Used.multi) =>
        \A n \in DOMAIN out.table :
            LET row == out.table[n]
                i   == GroupNumber(row.key)
            IN  /\ calls[i].context =
                       tail_slice(OwnSeries(row.key), model_pipeline[1].context_length)
                /\ row.value = MedianOfCall(i, row.time - cutoff)

\* C2: for a flat series and a horizon of H future steps predict returns
\* exactly H rows, one per requested step, in ascending time order.
C2_FlatRows ==
    (Predicted /\ ~Used.multi /\ out.fh # None) =>
        /\ out.status = "ok"
        /\ Len(out.table) = Cardinality(Requested)
        /\ \A n \in DOMAIN out.table : out.table[n].time \in Requested
        /\ \A n, m \in DOMAIN out.table : n < m => out.table[n].time < out.table[m].time

C2_Witness ==
    /\ out.status = "ok"
    /\ ~Used.multi
    /\ Len(out.table) = 2
    /\ MaxOffset = 3
    /\ Len(Used.rows) > model_pipeline[1].context_length

\* C3: for a panel of K groups sharing one time index and a horizon of H
\* future steps predict returns exactly K*H rows, the rows of one key
\* contiguous and, inside a key, in ascending time order.
C3_PanelRows ==
    (Predicted /\ Used.multi /\ ~Malformed /\ out.fh # None) =>
        /\ out.status = "ok"
        /\ Len(out.table) = Cardinality(UsedKeys) * Cardinality(Requested)
        /\ \A n \in DOMAIN out.table :
               out.table[n].key \in UsedKeys /\ out.table[n].time \in Requested
        /\ \A a, b, c \in DOMAIN out.table :
               (a < b /\ b < c /\ out.table[a].key = out.table[c].key)
                   => out.table[b].key = out.table[a].key
        /\ \A a, b \in DOMAIN out.table :
               (a < b /\ out.table[a].key = out.table[b].key)
                   => out.table[a].time < out.table[b].time

C3_Witness ==
    /\ out.status = "ok"
    /\ Used.multi
    /\ Cardinality(UsedKeys) = 2
    /\ Cardinality(Requested) = 2
    /\ Len(out.table) = 4

\* C4: for every horizon of distinct positive step offsets, contiguous or not,
\* the time points of the returned table are, for each group, exactly the
\* requested ones, and the value kept for offset j is the one generated for
\* step j of that group.
C4_RequestedPointsWithTheirValues ==
    out.status = "ok" =>
        /\ \A k \in UsedKeys : { out.table[n].time : n \in RowsOfKey(k) } = Requested
        /\ \A n \in DOMAIN out.table :
               out.table[n].value =
                   MedianOfCall(GroupNumber(out.table[n].key), out.table[n].time - cutoff)

\* C5: the pipeline is loaded zero times before the first fit, once by the
\* first fit and never again: no later fit and no predict loads or replaces
\* the handle.
C5_LoadedOnceByFirstFit ==
    /\ [](/\ fit_calls = 0 => (load_calls = 0 /\ model_pipeline = None)
          /\ fit_calls > 0 => (load_calls = 1 /\ model_pipeline # None))
    /\ [][(model_pipeline # None /\ fit_calls' > 0)
              => (model_pipeline' = model_pipeline /\ load_calls' = load_calls)]_vars

C5_Witness == fit_calls = 2 /\ load_calls = 1 /\ out.status = "ok"

\* C6: two predict calls on the same fitted adapter with the same horizon and
\* the same series return identical tables, whatever happened to the random
\* state in between; a predict call leaves the stored seed, the merged
\* configuration, the retained series and the pipeline handle as they were.
C6_PredictIdempotent ==
    [][Predicted' =>
          /\ UNCHANGED <<seed, _seed, heap, _config, _y, model_pipeline>>
          /\ (Predicted /\ out'.fh = out.fh /\ out'.y = out.y)
                 => (out'.status = out.status /\ out'.table = out.table)]_vars

C6_Witness ==
    /\ out.repeat
    /\ out.status = "ok"
    /\ Used.multi
    /\ Len(calls) = 2

\* C7: a panel whose groups do not all have the same time index makes predict
\* fail with the malformed-panel error, and no pipeline invocation has been
\* made when that error is raised.
C7_MalformedPanelFailsFirst ==
    Predicted =>
        /\ Malformed => out.status = "AssertionError"
        /\ out.status = "AssertionError" => calls = <<>>

C7_Witness ==
    /\ out.status = "AssertionError"
    /\ calls = <<>>
    /\ \A k1, k2 \in UsedKeys : Len(OwnTimes(k1)) = Len(OwnTimes(k2))

\* C8: a predict call invokes the pipeline once per group, and the history it
\* passes for a group of length L is the last min(L, C) steps of the group's
\* series in their order, C being the pipeline's context length.
C8_OneCallPerGroupOnRecentHistory ==
    (Predicted /\ out.status # "AssertionError") =>
        /\ Len(calls) = Cardinality(UsedKeys)
        /\ \A k \in UsedKeys :
               LET ctx == calls[GroupNumber(k)].context
                   ser == OwnSeries(k)
                   L   == Len(ser)
                   m   == Smaller(L, model_pipeline[1].context_length)
               IN  /\ Len(ctx) = m
                   /\ \A t \in 1 .. m : ctx[t] = ser[(L - m) + t]

C8_Witness ==
    /\ out.status = "ok"
    /\ Used.multi
    /\ Len(calls) = 2
    /\ \A i \in DOMAIN calls : Len(calls[i].context) = 2
    /\ \A k \in UsedKeys : Len(OwnSeries(k)) = 3

\* C9: the prediction length of every pipeline invocation of a predict call is
\* the largest relative step offset of the horizon, and one step when the
\* horizon is absent.
C9_PredictionLength ==
    Predicted =>
        \A i \in DOMAIN calls :
            calls[i].prediction_length = IF out.fh = None THEN 1 ELSE MaxOffset

C9_Witness ==
    /\ Predicted
    /\ calls # <<>>
    /\ out.fh # None
    /\ ~out.fh[1].is_relative
    /\ Cardinality(out.fh[1].values) = 2
    /\ calls[1].prediction_length = 3

\* C10: the sampling parameters of every pipeline invocation are those of the
\* merged configuration (the caller's value for a key the caller supplied, the
\* default otherwise), the length-limiting flag passed is always disabled, and
\* merging changes neither the shared defaults nor the caller's mapping.
C10_MergedConfiguration ==
    LET supplied(k) == config_passed # None /\ k \in DOMAIN config_passed[1]
        merged(k)   == IF supplied(k) THEN config_passed[1][k] ELSE DefaultConfig[k]
    IN  /\ heap["default"] = DefaultConfig
        /\ config # None => heap[config[1]] = config_passed[1]
        /\ \A k \in DOMAIN DefaultConfig : heap[_config][k] = merged(k)
        /\ \A i \in DOMAIN calls :
               /\ calls[i].num_samples = merged("num_samples")
               /\ calls[i].temperature = merged("temperature")
               /\ calls[i].top_k = merged("top_k")
               /\ calls[i].top_p = merged("top_p")
               /\ calls[i].limit_prediction_length = FALSE

C10_Witness ==
    /\ calls # <<>>
    /\ config # None
    /\ "limit_prediction_length" \in DOMAIN heap["caller"]
    /\ heap["caller"]["limit_prediction_length"]
    /\ heap[_config]["limit_prediction_length"]
    /\ calls[1].num_samples = Some(1)

=============================================================================
